---- MODULE Spec2Model ----
(***************************************************************************)
(* AAU Update news scraper (src/scraper.py): scrape_news, the              *)
(* __NEXT_DATA__ fallback extract_from_next_data, generate_html and main.  *)
(*                                                                         *)
(* Text values are sequences of tokens (a token is one character, or a     *)
(* run of characters no operation of the program looks inside).  Python    *)
(* dicts whose key set varies (the article records) are functions whose    *)
(* DOMAIN is the set of keys present.                                      *)
(***************************************************************************)
EXTENDS Integers, Sequences, FiniteSets, TLC

VARIABLES
    pc,                \* position in main / scrape_news
    caller,            \* "main" (line 314) or "direct" (scrape_news called on its own)
    max_items,         \* scrape_news argument
    article_elements,  \* result of page.query_selector_all (lines 28-32)
    idx,               \* number of candidates the loop of line 34 has consumed
    articles,          \* scrape_news local `articles`
    next_data,         \* what line 89-94 found: "unqueried" until the fallback runs
    playwright,        \* the sync_playwright() context of line 18
    browser,           \* the browser launched at line 19
    result,            \* value returned by scrape_news (line 100)
    rendered,          \* the list generate_html was called with, after lines 167-179
    html,              \* the cells generate_html emitted inside the grid container
    gen_calls,         \* number of generate_html invocations
    written            \* whether Path(output_path).write_text ran (line 308)

vars == <<pc, caller, max_items, article_elements, idx, articles, next_data,
          playwright, browser, result, rendered, html, gen_calls, written>>

-----------------------------------------------------------------------------
(* Bounds of the model *)

MaxCandidates == 2      \* longest candidate list the page query returns
MaxItemsArg == 2        \* largest max_items argument explored
MaxBlobObjects == 2     \* most article-like objects in a __NEXT_DATA__ blob
MaxRecords == 7         \* longest list handed directly to generate_html

(* Program constants *)

TitleLimit == 200       \* len(text) < 200, line 56
GridCells == 6          \* articles[:6], line 287
DatePrefix == 10        \* date_str[:10], line 174 and str(...)[:10], line 145

-----------------------------------------------------------------------------
(* Python values *)

None == <<"<None>">>

Truthy(v) == v # None /\ v # <<>>

PyOr(a, b) == IF Truthy(a) THEN a ELSE b

EmptyDict == [k \in {} |-> None]

Put(d, k, v) == [x \in (DOMAIN d) \cup {k} |-> IF x = k THEN v ELSE d[x]]

Get(d, k) == IF k \in DOMAIN d THEN d[k] ELSE None

GetOr(d, k, default) == IF k \in DOMAIN d THEN d[k] ELSE default

Min(a, b) == IF a <= b THEN a ELSE b

Max(a, b) == IF a >= b THEN a ELSE b

Prefix(s, n) == SubSeq(s, 1, Min(n, Len(s)))

Whitespace == {" ", "\n", "\t"}

Strip(s) ==
    LET keep == {i \in 1..Len(s) : s[i] \notin Whitespace}
    IN  IF keep = {} THEN <<>>
        ELSE SubSeq(s, CHOOSE i \in keep : \A j \in keep : i <= j,
                       CHOOSE i \in keep : \A j \in keep : i >= j)

\* s.split(sep)[0]
SplitFirst(s, sep) ==
    LET hits == {i \in 1..Len(s) : s[i] = sep}
    IN  IF hits = {} THEN s
        ELSE SubSeq(s, 1, (CHOOSE i \in hits : \A j \in hits : i <= j) - 1)

StartsWith(s, c) == Len(s) > 0 /\ s[1] = c

LongRun == "x*199"      \* a run of TitleLimit - 1 non-blank characters

TokLen(t) == IF t = LongRun THEN TitleLimit - 1 ELSE 1

RECURSIVE CharLen(_)
CharLen(s) == IF s = <<>> THEN 0 ELSE TokLen(Head(s)) + CharLen(Tail(s))

-----------------------------------------------------------------------------
(* scrape_news: extraction of one DOM candidate, lines 36-74 *)

Origin == <<"https://www.en.update.aau.dk">>

MakeAbsolute(s) == IF StartsWith(s, "/") THEN Origin \o s ELSE s

\* lines 39-47
ExtractLink(elem, article) ==
    LET own  == elem.href
        href == IF ~Truthy(own)
                THEN (IF elem.has_link THEN elem.link_href ELSE None)
                ELSE own
    IN  IF Truthy(href) THEN Put(article, "url", MakeAbsolute(href)) ELSE article

\* lines 50-57
ExtractTitle(elem, article) ==
    IF elem.has_title_elem
    THEN Put(article, "title", Strip(elem.title_text))
    ELSE LET text == Strip(elem.text)
         IN  IF Truthy(text) /\ CharLen(text) < TitleLimit
             THEN Put(article, "title", SplitFirst(text, "\n"))
             ELSE article

\* lines 67-68
RewriteWidth(s) ==
    IF \E i \in 1..Len(s) : s[i] = "?width="
    THEN SplitFirst(s, "?width=") \o <<"?width=", "800">>
    ELSE s

\* lines 60-69
ExtractImage(elem, article) ==
    IF elem.has_img
    THEN LET img_src == PyOr(elem.img_src, elem.img_data_src)
         IN  IF Truthy(img_src)
             THEN Put(article, "image", RewriteWidth(MakeAbsolute(img_src)))
             ELSE article
    ELSE article

\* lines 72-74
ExtractDate(elem, article) ==
    IF elem.has_date THEN Put(article, "date", Strip(elem.date_text)) ELSE article

\* lines 36-74, when no call raises
ExtractCandidate(elem) ==
    ExtractDate(elem, ExtractImage(elem, ExtractTitle(elem, ExtractLink(elem, EmptyDict))))

\* an element-handle call of lines 39-74 raises (stale handle, detached node)
CandidateRaises(elem) == elem.raises # "none"

\* line 77
HasTitleAndUrl(article) == Truthy(Get(article, "title")) /\ Truthy(Get(article, "url"))

\* line 79
IsDuplicate(article, accepted) ==
    \E i \in 1..Len(accepted) : Get(accepted[i], "url") = article["url"]

\* a later candidate with an accepted url takes the place of the accepted record
AcceptLatest(article, accepted) ==
    IF ~HasTitleAndUrl(article) THEN accepted
    ELSE IF IsDuplicate(article, accepted)
    THEN [i \in 1..Len(accepted) |->
             IF Get(accepted[i], "url") = article["url"] THEN article ELSE accepted[i]]
    ELSE Append(accepted, article)

\* lines 76-80
Accept(article, accepted) ==
    IF HasTitleAndUrl(article) /\ ~IsDuplicate(article, accepted)
    THEN Append(accepted, article)
    ELSE accepted

\* lines 82-84: the handler of the per-candidate try
OnCandidateError(accepted) == accepted

\* one iteration of the loop of line 34
ProcessCandidate(elem, accepted) ==
    IF CandidateRaises(elem)
    THEN OnCandidateError(accepted)
    ELSE Accept(ExtractCandidate(elem), accepted)

-----------------------------------------------------------------------------
(* JSON values of the __NEXT_DATA__ blob.  A dict keeps its items in       *)
(* insertion order: a sequence of <<key, value>> pairs with distinct keys. *)

JStr(s) == [t |-> "str", v |-> s]

JNum(digits) == [t |-> "num", v |-> digits]

JNull == [t |-> "null", v |-> <<>>]

JList(xs) == [t |-> "list", v |-> xs]

JDict(items) == [t |-> "dict", v |-> items]

HasKey(obj, k) == \E i \in 1..Len(obj.v) : obj.v[i][1] = k

Lookup(obj, k) == obj.v[CHOOSE i \in 1..Len(obj.v) : obj.v[i][1] = k][2]

\* str(x) of a decoded JSON value
StrOf(j) ==
    CASE j.t = "str"  -> j.v
      [] j.t = "num"  -> j.v
      [] j.t = "null" -> <<"None">>
      [] OTHER        -> <<"<repr>">>

\* the Python object a JSON value decodes to, for the values read by
\* img.get(...) at line 139: strings and null in the blobs explored
PyVal(j) ==
    CASE j.t = "str"  -> j.v
      [] j.t = "null" -> None
      [] OTHER        -> StrOf(j)

DictGet(obj, k) == IF HasKey(obj, k) THEN PyVal(Lookup(obj, k)) ELSE None

\* index of the first key of `keys`, in list order, that satisfies P
FirstOf(S) == CHOOSE i \in S : \A j \in S : i <= j

TitleKeys == <<"title", "headline", "name">>
UrlKeys   == <<"url", "href", "link">>
ImageKeys == <<"image", "img", "thumbnail", "media", "photo">>
DateKeys  == <<"date", "publishedAt", "createdAt", "updateDate", "createDate">>

AnyKey(obj, keys) == \E i \in 1..Len(keys) : HasKey(obj, keys[i])

\* lines 111-115
LooksLikeArticle(obj) ==
    /\ AnyKey(obj, TitleKeys)
    /\ \/ AnyKey(obj, UrlKeys) \/ HasKey(obj, "slug")
       \/ AnyKey(obj, ImageKeys)

\* lines 119-122
NextTitle(obj, article) ==
    LET hits == {i \in 1..Len(TitleKeys) :
                    HasKey(obj, TitleKeys[i]) /\ Lookup(obj, TitleKeys[i]).t = "str"}
    IN  IF hits = {} THEN article
        ELSE Put(article, "title", Lookup(obj, TitleKeys[FirstOf(hits)]).v)

\* lines 125-130
NextUrl(obj, article) ==
    LET hits == {i \in 1..Len(UrlKeys) :
                    HasKey(obj, UrlKeys[i]) /\ Lookup(obj, UrlKeys[i]).t = "str"}
        a1   == IF hits = {} THEN article
                ELSE Put(article, "url", Lookup(obj, UrlKeys[FirstOf(hits)]).v)
    IN  IF HasKey(obj, "slug")
        THEN Put(a1, "url", Origin \o <<"/news/">> \o StrOf(Lookup(obj, "slug")))
        ELSE a1

\* lines 133-140
NextImage(obj, article) ==
    LET hits == {i \in 1..Len(ImageKeys) : HasKey(obj, ImageKeys[i])}
    IN  IF hits = {} THEN article
        ELSE LET img == Lookup(obj, ImageKeys[FirstOf(hits)])
             IN  IF img.t = "str" THEN Put(article, "image", img.v)
                 ELSE IF img.t = "dict"
                 THEN Put(article, "image",
                          PyOr(PyOr(DictGet(img, "url"), DictGet(img, "src")),
                               DictGet(img, "href")))
                 ELSE article

\* lines 143-146
NextDate(obj, article) ==
    LET hits == {i \in 1..Len(DateKeys) : HasKey(obj, DateKeys[i])}
    IN  IF hits = {} THEN article
        ELSE Put(article, "date",
                 Prefix(StrOf(Lookup(obj, DateKeys[FirstOf(hits)])), DatePrefix))

\* lines 116-146
ArticleOf(obj) == NextDate(obj, NextImage(obj, NextUrl(obj, NextTitle(obj, EmptyDict))))

\* line 148
Appendable(article) == Truthy(Get(article, "title"))

\* lines 107-157: the articles appended while walking obj, in order
RECURSIVE find_articles(_), WalkAll(_)
find_articles(obj) ==
    IF obj.t = "dict"
    THEN LET own == IF LooksLikeArticle(obj) /\ Appendable(ArticleOf(obj))
                    THEN <<ArticleOf(obj)>> ELSE <<>>
         IN  own \o WalkAll([i \in 1..Len(obj.v) |-> obj.v[i][2]])
    ELSE IF obj.t = "list" THEN WalkAll(obj.v)
    ELSE <<>>
WalkAll(vals) ==
    IF Len(vals) = 0 THEN <<>> ELSE find_articles(Head(vals)) \o WalkAll(Tail(vals))

\* lines 103-160
extract_from_next_data(data) == find_articles(data)

-----------------------------------------------------------------------------
(* generate_html *)

Digits == <<"0", "1", "2", "3", "4", "5", "6", "7", "8", "9">>

IsDigit(c) == \E i \in 1..Len(Digits) : Digits[i] = c

DigitVal(c) == (CHOOSE i \in 1..Len(Digits) : Digits[i] = c) - 1

At(s, i) == IF i >= 1 /\ i <= Len(s) THEN s[i] ELSE ""

IsLeap(y) == y % 4 = 0 /\ (y % 100 # 0 \/ y % 400 = 0)

DaysInMonth(y, m) ==
    IF m = 2 THEN (IF IsLeap(y) THEN 28 + 1 ELSE 28)
    ELSE IF m \in {4, 6, 9, 11} THEN 30 ELSE 31

NoDate == [ok |-> FALSE, y |-> 0, m |-> 0, d |-> 0]

\* datetime.strptime(s, "%Y-%m-%d") (line 174): the format's regular expression
\* \d{4}-(1[0-2]|0[1-9]|[1-9])-(3[01]|[12]\d|0[1-9]|[1-9]| [1-9]) must match a
\* prefix of s, nothing may remain after it, and the date must exist
strptime(s) ==
    LET yOk  == \A i \in 1..4 : IsDigit(At(s, i))
        year == DigitVal(s[1]) * 1000 + DigitVal(s[2]) * 100 + DigitVal(s[3]) * 10 + DigitVal(s[4])
        NonZero(c) == IsDigit(c) /\ c # "0"
        m2   == /\ At(s, 8) = "-"
                /\ \/ At(s, 6) = "1" /\ At(s, 7) \in {"0", "1", "2"}
                   \/ At(s, 6) = "0" /\ NonZero(At(s, 7))
        m1   == NonZero(At(s, 6)) /\ At(s, 7) = "-"
        month == IF m2 THEN DigitVal(s[6]) * 10 + DigitVal(s[7]) ELSE DigitVal(s[6])
        p    == IF m2 THEN 9 ELSE 8          \* where the day starts
        d2   == \/ At(s, p) = "3" /\ At(s, p + 1) \in {"0", "1"}
                \/ At(s, p) \in {"1", "2"} /\ IsDigit(At(s, p + 1))
                \/ At(s, p) = "0" /\ NonZero(At(s, p + 1))
        d1   == NonZero(At(s, p))
        dsp  == At(s, p) = " " /\ NonZero(At(s, p + 1))
        day  == IF d2 THEN DigitVal(s[p]) * 10 + DigitVal(s[p + 1])
                ELSE IF d1 THEN DigitVal(s[p]) ELSE DigitVal(s[p + 1])
        end  == IF d2 \/ (~d1 /\ dsp) THEN p + 1 ELSE p
    IN  IF /\ yOk /\ At(s, 5) = "-" /\ (m2 \/ m1) /\ (d2 \/ d1 \/ dsp)
           /\ end = Len(s)
           /\ year >= 1 /\ day <= DaysInMonth(year, month)
        THEN [ok |-> TRUE, y |-> year, m |-> month, d |-> day]
        ELSE NoDate

Pad2(n) == <<Digits[(n \div 10) + 1], Digits[(n % 10) + 1]>>

RECURSIVE Decimal(_)
Decimal(n) == IF n < 10 THEN <<Digits[n + 1]>> ELSE Decimal(n \div 10) \o <<Digits[(n % 10) + 1]>>

\* dt.strftime("%d.%m.%Y") (line 175)
strftime(dt) == Pad2(dt.d) \o <<".">> \o Pad2(dt.m) \o <<".">> \o Decimal(dt.y)

\* line 172-173
DatePart(date_str) ==
    IF \E i \in 1..Len(date_str) : date_str[i] = "T"
    THEN SplitFirst(date_str, "T")
    ELSE date_str

\* a date that does not parse is dropped instead of kept
FormatDateOrBlank(article) ==
    IF Truthy(Get(article, "date"))
    THEN LET dt == strptime(Prefix(DatePart(article["date"]), DatePrefix))
         IN  IF dt.ok THEN strftime(dt) ELSE <<>>
    ELSE <<>>

\* lines 168-179
FormatDate(article) ==
    IF Truthy(Get(article, "date"))
    THEN LET dt == strptime(Prefix(DatePart(article["date"]), DatePrefix))
         IN  IF dt.ok THEN strftime(dt) ELSE article["date"]
    ELSE <<>>

\* lines 167-179
WithFormattedDates(list) ==
    [i \in 1..Len(list) |-> Put(list[i], "formatted_date", FormatDate(list[i]))]

\* line 182
placeholder == <<"https://www.en.update.aau.dk/media/aau-logo.png">>

\* "{x}" in an f-string
Fmt(v) == IF v = None THEN <<"None">> ELSE v

\* lines 288-301
Cell(article) ==
    [ image   |-> Fmt(GetOr(article, "image", placeholder)),
      title   |-> Fmt(GetOr(article, "title", <<"News Article">>)),
      url     |-> Fmt(GetOr(article, "url", <<"#">>)),
      date    |-> Fmt(GetOr(article, "formatted_date", <<>>)),
      onerror |-> placeholder ]

\* no cap on the rendered records
ShownAll(list) == list

\* line 287
Shown(list) == Prefix(list, GridCells)

\* lines 287-301: the children of <div class="grid">
Cells(list) == [i \in 1..Len(Shown(list)) |-> Cell(Shown(list)[i])]

\* lines 224-227: .article:nth-child(1), .article:nth-child(2)
HeroPositions == {1, 2}

-----------------------------------------------------------------------------
(* Inputs: what the page can hold *)

IsoStamp == <<"2","0","2","4","-","0","3","-","1","5","T","1","0",":","0","0",":","0","0","Z">>
NotADate == <<"n","o","t","-","a","-","d","a","t","e">>

NoElement ==
    [ href |-> None, has_link |-> FALSE, link_href |-> None,
      has_title_elem |-> FALSE, title_text |-> <<>>, text |-> <<>>,
      has_img |-> FALSE, img_src |-> None, img_data_src |-> None,
      has_date |-> FALSE, date_text |-> <<>>, raises |-> "none" ]

\* <a href="/news/1"><h3> A </h3><img src="/media/a.jpg?width=120"><time>..</time></a>
CardA ==
    [NoElement EXCEPT !.href = <<"/", "news/1">>,
                      !.has_title_elem = TRUE, !.title_text = <<" ", "A", "\n">>,
                      !.has_img = TRUE, !.img_src = <<"/", "media/a.jpg", "?width=", "120">>,
                      !.has_date = TRUE, !.date_text = IsoStamp]

\* the same article linked by its absolute address, under another heading
CardA2 ==
    [NoElement EXCEPT !.href = Origin \o <<"/", "news/1">>,
                      !.has_title_elem = TRUE, !.title_text = <<"A", " ", "again">>]

\* <article><a href="https://.../news/2"></a>B\nmore<img data-src=..><span class="date">
CardB ==
    [NoElement EXCEPT !.has_link = TRUE, !.link_href = Origin \o <<"/", "news/2">>,
                      !.text = <<"\n", "B", "\n", "more", " ">>,
                      !.has_img = TRUE, !.img_data_src = <<"https://cdn.example/b.png">>,
                      !.has_date = TRUE, !.date_text = NotADate]

\* a heading with no link anywhere
NoUrlCard ==
    [NoElement EXCEPT !.has_title_elem = TRUE, !.title_text = <<"C">>,
                      !.has_link = TRUE, !.link_href = None]

\* a link whose heading is blank
BlankTitleCard ==
    [NoElement EXCEPT !.href = <<"/", "news/3">>,
                      !.has_title_elem = TRUE, !.title_text = <<" ">>]

\* a link with no heading and TitleLimit characters of text
LongTextCard ==
    [NoElement EXCEPT !.href = <<"/", "news/4">>, !.text = <<LongRun, "y">>]

\* a complete card whose handle goes stale while its heading is read
StaleCard ==
    [NoElement EXCEPT !.href = <<"/", "news/5">>,
                      !.has_title_elem = TRUE, !.title_text = <<"E">>,
                      !.raises = "title"]

Candidates == {CardA, CardA2, CardB, NoUrlCard, BlankTitleCard, LongTextCard, StaleCard}

RECURSIVE SeqsUpTo(_, _)
SeqsUpTo(S, n) ==
    IF n = 0 THEN {<<>>}
    ELSE LET shorter == SeqsUpTo(S, n - 1)
         IN  shorter \cup {Append(q, x) : q \in {r \in shorter : Len(r) = n - 1}, x \in S}

CandidateLists == SeqsUpTo(Candidates, MaxCandidates)

\* article-like objects of a __NEXT_DATA__ blob
ObjFull ==
    JDict(<< <<"title", JStr(<<"A">>)>>, <<"url", JStr(<<"https://u/1">>)>>,
             <<"image", JStr(<<"https://i/1.png">>)>>, <<"publishedAt", JStr(IsoStamp)>> >>)

\* the same url again, under another title key and with no image key
ObjSameUrl ==
    JDict(<< <<"id", JNum(<<"7">>)>>, <<"headline", JStr(<<"A2">>)>>,
             <<"url", JStr(<<"https://u/1">>)>> >>)

\* a title and an image object, no address; the image object has no url/src/href
ObjNoUrl ==
    JDict(<< <<"title", JStr(<<"C">>)>>, <<"image", JDict(<< <<"alt", JStr(<<"c">>)>> >>)>> >>)

\* address from the slug, image from a nested src
ObjSlug ==
    JDict(<< <<"name", JStr(<<"D">>)>>, <<"slug", JStr(<<"d">>)>>,
             <<"thumbnail", JDict(<< <<"url", JNull>>, <<"src", JStr(<<"https://i/4.png">>)>> >>)>> >>)

\* an empty address and an empty image string
ObjEmpty ==
    JDict(<< <<"title", JStr(<<"E">>)>>, <<"href", JStr(<<>>)>>, <<"img", JStr(<<>>)>> >>)

\* a title that is not a string
ObjBadTitle ==
    JDict(<< <<"title", JNum(<<"5">>)>>, <<"url", JStr(<<"https://u/6">>)>> >>)

BlobObjects == <<ObjFull, ObjSameUrl, ObjNoUrl, ObjSlug, ObjEmpty, ObjBadTitle>>

\* the objects of BlobObjects at the positions S, in their order
RECURSIVE Pick(_)
Pick(S) ==
    IF S = {} THEN <<>>
    ELSE LET i == FirstOf(S) IN <<BlobObjects[i]>> \o Pick(S \ {i})

Blob(objs) == JDict(<< <<"buildId", JStr(<<"b1">>)>>, <<"props", JList(objs)>> >>)

\* what lines 89-94 meet: no script tag, text json.loads rejects, a blob nested
\* beyond the recursion limit, or a blob that decodes and walks
NextDataChoices ==
    {[kind |-> "absent", data |-> JNull],
     [kind |-> "invalid", data |-> JNull],
     [kind |-> "too_deep", data |-> JNull]}
    \cup {[kind |-> "json", data |-> Blob(Pick(S))] :
             S \in {T \in SUBSET (1..Len(BlobObjects)) : Cardinality(T) <= MaxBlobObjects}}

Unqueried == [kind |-> "unqueried", data |-> JNull]

\* line 14
DefaultMaxItems == 10


D(y1, y2, y3, y4, m1, m2, d1, d2) == <<y1, y2, y3, y4, "-", m1, m2, "-", d1, d2>>

\* datetime.now().strftime("%Y-%m-%d"), line 328
Todays == {D("2","0","2","6","1","1","0","5"), D("2","0","2","4","0","2","2","9")}

\* date strings handed directly to generate_html
DateSamples ==
    { IsoStamp, NotADate, <<>>,
      D("2","0","2","4","0","3","1","5"),
      D("2","0","2","4","0","3","1","5") \o <<" ", "x">>,
      D("2","0","2","4","0","2","2","9"),
      D("2","0","2","3","0","2","2","9"),
      D("2","0","2","4","0","2","3","0"),
      D("2","0","2","4","0","4","3","1"),
      D("2","0","2","4","1","2","3","1"),
      D("2","0","2","4","1","3","0","1"),
      D("2","0","2","4","0","0","1","0"),
      D("2","0","2","4","0","3","0","0"),
      D("2","0","2","4","0","3","4","0"),
      D("0","0","0","0","0","1","0","1"),
      D("1","9","0","0","0","2","2","9"),
      D("2","0","0","0","0","2","2","9"),
      <<"2","0","2","4","-","3","-","5">>,
      <<"2","0","2","4","-","0","3","-","1">>,
      <<"2","0","2","4","-","0","3","-"," ","5">>,
      <<"2","0","2","4","-","0","3","-","1","x">>,
      <<"2","0","2","4","/","0","3","/","1","5">>,
      <<"1","5",".","0","3",".","2","0","2","4">>,
      <<"T","u","e"," ","1","5">>,
      <<"2","0","2","4","-","0","3","T","1","5">> }

Filler(i) == [title |-> <<"t", Digits[i + 1]>>, url |-> <<"u", Digits[i + 1]>>]

SampleRecords ==
    LET base == [title |-> <<"S">>, url |-> <<"https://u/s">>]
        dated == {base} \cup {Put(base, "date", d) : d \in DateSamples}
    IN  dated \cup {Put(r, "image", <<"https://i/s.png">>) : r \in dated}

\* lists of up to MaxRecords records, one of them drawn from SampleRecords
RenderInputs ==
    {<<>>} \cup
    { [i \in 1..n |-> IF i = p THEN r ELSE Filler(i)] :
          <<n, p>> \in {<<a, b>> \in (1..MaxRecords) \X (1..MaxRecords) : b <= a},
          r \in SampleRecords }

-----------------------------------------------------------------------------
(* generate_html and main *)

\* lines 163-308: the records after date formatting, and the grid's cells
generate_html(list) ==
    LET formatted == WithFormattedDates(list)
    IN  [articles |-> formatted, cells |-> Cells(formatted)]

\* lines 324-329
PlaceholderRecord(today) ==
    [ title |-> <<"News temporarily unavailable">>,
      url   |-> Origin \o <<"/", "news">>,
      image |-> <<"https://www.aau.dk/digitalAssets/1075/1075444_aau-logo-rgb.png">>,
      date  |-> today ]

\* main renders whatever was found, the empty list included
MainInputAsFound(found, today) == found

\* lines 316-329: what main hands to generate_html
MainInput(found, today) ==
    IF Len(found) > 0 THEN found ELSE <<PlaceholderRecord(today)>>

-----------------------------------------------------------------------------
(* scrape_news, step by step *)

\* the browser is left as it is when the with block is left
TeardownLeaks(b) == b

\* line 18: leaving the with block (normally or by an exception) stops the
\* Playwright driver, which disposes of every browser launched under it
Teardown(b) == IF b = "open" THEN "closed" ELSE b

\* line 34: article_elements[:max_items]
Considered == Prefix(article_elements, max_items)

\* the try wraps the whole loop: an exception ends it
AbortLoop(elem, i, n) == IF CandidateRaises(elem) THEN n ELSE i + 1

\* lines 82-84: `continue` moves on to the next candidate
AfterCandidate(elem, i, n) == i + 1

\* line 87
NeedsFallback(found) == Len(found) = 0

\* no except clause around lines 92-94
FallbackPropagates(nd, found) ==
    CASE nd.kind = "json"   -> [articles |-> extract_from_next_data(nd.data), pc |-> "close"]
      [] nd.kind = "absent" -> [articles |-> found, pc |-> "close"]
      [] OTHER              -> [articles |-> found, pc |-> "unwind"]

\* lines 90-96: the list after the fallback, and where control goes
FallbackOutcome(nd, found) ==
    CASE nd.kind = "json"   -> [articles |-> extract_from_next_data(nd.data), pc |-> "close"]
      [] nd.kind = "absent" -> [articles |-> found, pc |-> "close"]
      [] OTHER              -> [articles |-> found, pc |-> "close"]   \* except of line 95

\* line 100
Returned(found, cap) == Prefix(found, cap)

Init ==
    /\ pc = "call"
    /\ caller \in {"main", "direct"}
    /\ max_items \in (IF caller = "main" THEN {DefaultMaxItems} ELSE 1..MaxItemsArg)
    /\ article_elements = <<>>
    /\ idx = 0
    /\ articles = <<>>
    /\ next_data = Unqueried
    /\ playwright = "none"
    /\ browser = "none"
    /\ result = <<>>
    /\ rendered = <<>>
    /\ html = <<>>
    /\ gen_calls = 0
    /\ written = FALSE

\* lines 16-18
Enter ==
    /\ pc = "call"
    /\ articles' = <<>>
    /\ playwright' = "started"
    /\ pc' = "launch"
    /\ UNCHANGED <<caller, max_items, article_elements, idx, next_data, browser,
                   result, rendered, html, gen_calls, written>>

\* line 19
Launch ==
    /\ pc = "launch"
    /\ browser' = "open"
    /\ pc' = "goto"
    /\ UNCHANGED <<caller, max_items, article_elements, idx, articles, next_data,
                   playwright, result, rendered, html, gen_calls, written>>

\* a call of lines 19-32 or line 89 raises: nothing in scrape_news catches it
Raise(at) ==
    /\ pc = at
    /\ pc' = "unwind"
    /\ UNCHANGED <<caller, max_items, article_elements, idx, articles, next_data,
                   playwright, browser, result, rendered, html, gen_calls, written>>

LaunchFails == Raise("launch")

\* lines 20-24
Navigate ==
    /\ pc = "goto"
    /\ pc' = "query"
    /\ UNCHANGED <<caller, max_items, article_elements, idx, articles, next_data,
                   playwright, browser, result, rendered, html, gen_calls, written>>

NavigateFails == Raise("goto")

\* lines 28-32: the first query, and the second when the first finds nothing
Query ==
    /\ pc = "query"
    /\ \E first \in CandidateLists :
          IF Len(first) > 0
          THEN article_elements' = first
          ELSE \E second \in CandidateLists : article_elements' = second
    /\ idx' = 0
    /\ pc' = "loop"
    /\ UNCHANGED <<caller, max_items, articles, next_data,
                   playwright, browser, result, rendered, html, gen_calls, written>>

QueryFails == Raise("query")

\* lines 34-84: one candidate
LoopStep ==
    /\ pc = "loop"
    /\ idx < Len(Considered)
    /\ articles' = ProcessCandidate(Considered[idx + 1], articles)
    /\ idx' = AfterCandidate(Considered[idx + 1], idx, Len(Considered))
    /\ UNCHANGED <<pc, caller, max_items, article_elements, next_data,
                   playwright, browser, result, rendered, html, gen_calls, written>>

\* lines 34, 87: the loop is exhausted
LoopEnd ==
    /\ pc = "loop"
    /\ idx >= Len(Considered)
    /\ pc' = IF NeedsFallback(articles) THEN "fallback" ELSE "close"
    /\ UNCHANGED <<caller, max_items, article_elements, idx, articles, next_data,
                   playwright, browser, result, rendered, html, gen_calls, written>>

\* lines 88-96
Fallback ==
    /\ pc = "fallback"
    /\ \E nd \in NextDataChoices :
          /\ next_data' = nd
          /\ articles' = FallbackOutcome(nd, articles).articles
          /\ pc' = FallbackOutcome(nd, articles).pc
    /\ UNCHANGED <<caller, max_items, article_elements, idx,
                   playwright, browser, result, rendered, html, gen_calls, written>>

\* line 89 raises
FallbackQueryFails == Raise("fallback")

\* line 98
Close ==
    /\ pc = "close"
    /\ browser' = "closed"
    /\ pc' = "exit"
    /\ UNCHANGED <<caller, max_items, article_elements, idx, articles, next_data,
                   playwright, result, rendered, html, gen_calls, written>>

\* line 18, __exit__: reached from line 98 or by an exception on its way out
WithExit ==
    /\ pc \in {"exit", "unwind"}
    /\ playwright' = "stopped"
    /\ browser' = Teardown(browser)
    /\ pc' = IF pc = "exit" THEN "return" ELSE "raised"
    /\ UNCHANGED <<caller, max_items, article_elements, idx, articles, next_data,
                   result, rendered, html, gen_calls, written>>

\* line 100
Return ==
    /\ pc = "return"
    /\ result' = Returned(articles, max_items)
    /\ pc' = "returned"
    /\ UNCHANGED <<caller, max_items, article_elements, idx, articles, next_data,
                   playwright, browser, rendered, html, gen_calls, written>>

\* lines 316-329, with generate_html (lines 163-308)
MainRender ==
    /\ pc = "returned"
    /\ caller = "main"
    /\ \E today \in Todays :
          LET out == generate_html(MainInput(result, today))
          IN  /\ rendered' = out.articles
              /\ html' = out.cells
    /\ gen_calls' = gen_calls + 1
    /\ written' = TRUE
    /\ pc' = "done"
    /\ UNCHANGED <<caller, max_items, article_elements, idx, articles, next_data,
                   playwright, browser, result>>

Next ==
    \/ Enter \/ Launch \/ LaunchFails \/ Navigate \/ NavigateFails
    \/ Query \/ QueryFails \/ LoopStep \/ LoopEnd
    \/ Fallback \/ FallbackQueryFails \/ Close \/ WithExit \/ Return \/ MainRender

Spec == Init /\ [][Next]_vars

-----------------------------------------------------------------------------
(* generate_html called directly with a list of records *)

InitRender ==
    /\ pc = "render"
    /\ caller = "renderer"
    /\ max_items = DefaultMaxItems
    /\ article_elements = <<>>
    /\ idx = 0
    /\ articles = <<>>
    /\ next_data = Unqueried
    /\ playwright = "none"
    /\ browser = "none"
    /\ result \in RenderInputs
    /\ rendered = <<>>
    /\ html = <<>>
    /\ gen_calls = 0
    /\ written = FALSE

\* lines 163-308
RenderDirect ==
    /\ pc = "render"
    /\ LET out == generate_html(result)
       IN  /\ rendered' = out.articles
           /\ html' = out.cells
    /\ gen_calls' = gen_calls + 1
    /\ written' = TRUE
    /\ pc' = "done"
    /\ UNCHANGED <<caller, max_items, article_elements, idx, articles, next_data,
                   playwright, browser, result>>

NextRender == RenderDirect

SpecRender == InitRender /\ [][NextRender]_vars

-----------------------------------------------------------------------------
(* Properties *)

Finished == {"returned", "done"}

\* the list the candidate loop holds after its first k candidates
RECURSIVE DomRecords(_)
DomRecords(k) ==
    IF k = 0 THEN <<>> ELSE ProcessCandidate(Considered[k], DomRecords(k - 1))

\* candidate j yields both a title and a url
Yields(j) ==
    /\ ~CandidateRaises(Considered[j])
    /\ HasTitleAndUrl(ExtractCandidate(Considered[j]))

\* C1: the list scrape_news returns holds no two records with the same url,
\* whether it came from the candidate loop or from the __NEXT_DATA__ fallback.
C1_UniqueUrls ==
    pc \in Finished =>
        \A i, j \in 1..Len(result) :
            (i < j /\ "url" \in DOMAIN result[i] /\ "url" \in DOMAIN result[j])
                => result[i]["url"] # result[j]["url"]

\* C2: every record scrape_news returns has a non-empty title and a non-empty
\* url, on the candidate path and on the fallback path alike.
C2_TitleAndUrl ==
    pc \in Finished =>
        \A i \in 1..Len(result) :
            Truthy(Get(result[i], "title")) /\ Truthy(Get(result[i], "url"))

UnavailableTitle == <<"News temporarily unavailable">>

\* C4: in main, once scrape_news has returned, generate_html runs exactly once
\* and the file is written; for an empty list it receives exactly one record,
\* titled "News temporarily unavailable", and the grid has exactly one cell,
\* showing that record.
C4_MainRendersOnce ==
    /\ [](gen_calls <= 1)
    /\ []((caller = "main" /\ pc = "done") =>
            /\ gen_calls = 1 /\ written
            /\ Len(result) = 0 =>
                  /\ Len(rendered) = 1
                  /\ rendered[1]["title"] = UnavailableTitle
                  /\ Len(html) = 1
                  /\ html[1].title = UnavailableTitle
                  /\ html[1].image = PlaceholderRecord(<<>>).image
                  /\ html[1].url = PlaceholderRecord(<<>>).url)
    /\ [][(caller = "main" /\ pc = "returned") =>
            (pc' = "done" /\ gen_calls' = 1 /\ written')]_vars

C4_Witness ==
    /\ caller = "main" /\ pc = "done" /\ Len(result) = 0
    /\ Len(html) = 1 /\ html[1].title = UnavailableTitle

\* C5: for n records generate_html emits min(n, 6) cells, in input order; the
\* first min(n, 2) are hero cells (child positions 1 and 2), the other
\* max(0, min(n, 6) - 2) are standard cells; for n = 0 there is no cell.
C5_GridCells ==
    pc = "done" =>
        LET n == Len(result)
            heroes == {i \in 1..Len(html) : i \in HeroPositions}
        IN  /\ Len(html) = Min(n, 6)
            /\ \A i \in 1..Len(html) :
                  html[i].title = result[i]["title"] /\ html[i].url = result[i]["url"]
            /\ heroes = 1..Min(n, 2)
            /\ Cardinality((1..Len(html)) \ heroes) = Max(0, Min(n, 6) - 2)
            /\ n = 0 => html = <<>>

C5_Witness == pc = "done" /\ Len(result) = 7 /\ Len(html) = 6

\* a record lacks an image: no image key, or an absent or empty image value
LacksImage(article) == ~Truthy(Get(article, "image"))

\* C6: the cell of every record that lacks an image has the fixed placeholder
\* image URL as its image source.
C6_PlaceholderImage ==
    pc = "done" =>
        \A i \in 1..Len(html) : LacksImage(rendered[i]) => html[i].image = placeholder

\* the text of a date before its first "T"
BeforeT(date) ==
    LET hits == {i \in 1..Len(date) : date[i] = "T"}
    IN  IF hits = {} THEN date ELSE SubSeq(date, 1, FirstOf(hits) - 1)

\* year-month-day written with two-digit month and day, rearranged
DayMonthYear(p) == <<p[9], p[10], ".", p[6], p[7], ".", p[1], p[2], p[3], p[4]>>

\* dates and what CPython 3.11 makes of them at lines 168-179
DateExamples ==
    { <<IsoStamp, <<"1","5",".","0","3",".","2","0","2","4">> >>,
      <<NotADate, NotADate>>,
      <<D("2","0","2","4","0","2","2","9"), <<"2","9",".","0","2",".","2","0","2","4">> >>,
      <<D("2","0","2","3","0","2","2","9"), D("2","0","2","3","0","2","2","9")>>,
      <<D("2","0","2","4","0","4","3","1"), D("2","0","2","4","0","4","3","1")>>,
      <<D("2","0","2","4","1","3","0","1"), D("2","0","2","4","1","3","0","1")>>,
      <<D("2","0","2","4","0","3","4","0"), D("2","0","2","4","0","3","4","0")>>,
      <<D("0","0","0","0","0","1","0","1"), D("0","0","0","0","0","1","0","1")>>,
      <<D("1","9","0","0","0","2","2","9"), D("1","9","0","0","0","2","2","9")>>,
      <<D("2","0","0","0","0","2","2","9"), <<"2","9",".","0","2",".","2","0","0","0">> >>,
      <<D("2","0","2","4","1","2","3","1"), <<"3","1",".","1","2",".","2","0","2","4">> >>,
      << <<"2","0","2","4","-","3","-","5">>, <<"0","5",".","0","3",".","2","0","2","4">> >>,
      << <<"2","0","2","4","-","0","3","T","1","5">>, <<"2","0","2","4","-","0","3","T","1","5">> >>,
      << <<"T","u","e"," ","1","5">>, <<"T","u","e"," ","1","5">> >> }

\* C7: formatted date of a record: "" when date is absent or empty; otherwise
\* the first 10 characters of the part before any "T" are parsed as
\* year-month-day and the result is day.month.year, or the raw date string
\* when they do not parse.
C7_FormattedDate ==
    pc = "done" =>
        \A i \in 1..Len(rendered) :
            LET rec  == rendered[i]
                raw  == Get(rec, "date")
                out  == rec["formatted_date"]
                part == Prefix(BeforeT(raw), 10)
                dt   == strptime(part)
            IN  /\ rec = Put(result[i], "formatted_date", out)
                /\ ("date" \notin DOMAIN rec \/ raw = <<>>) => out = <<>>
                /\ Truthy(raw) /\ dt.ok =>
                      /\ out = Pad2(dt.d) \o <<".">> \o Pad2(dt.m) \o <<".">> \o Decimal(dt.y)
                      /\ (Len(part) = 10 /\ IsDigit(part[9])) => out = DayMonthYear(part)
                /\ Truthy(raw) /\ ~dt.ok => out = raw
                /\ \A ex \in DateExamples : raw = ex[1] => out = ex[2]

C7_Witness ==
    /\ pc = "done"
    /\ \E i \in 1..Len(rendered) :
          /\ Get(rendered[i], "date") = IsoStamp
          /\ rendered[i]["formatted_date"] = <<"1","5",".","0","3",".","2","0","2","4">>
    /\ \E i \in 1..Len(rendered) : "date" \notin DOMAIN rendered[i]

\* C8: a candidate whose extraction raises leaves the accepted records as they
\* were, adds none, and the loop goes on to the next candidate: the exception
\* does not leave scrape_news and every later candidate is processed.
C8_CandidateErrorIsolated ==
    /\ [][(pc = "loop" /\ idx < Len(Considered) /\ CandidateRaises(Considered[idx + 1]))
            => (articles' = articles /\ idx' = idx + 1 /\ pc' = "loop")]_vars
    /\ [](pc \in {"fallback", "close", "exit", "return", "returned", "done"}
            => idx = Len(Considered))
    /\ [](pc = "loop" => idx <= Len(Considered))

C8_Witness ==
    /\ pc = "loop" /\ idx = 2
    /\ CandidateRaises(Considered[1])
    /\ articles = <<ExtractCandidate(Considered[2])>>

\* C9: the fallback runs only when the candidate loop accepted nothing (else
\* the result is the loop's records alone); when reading the blob raises, the
\* exception is caught and scrape_news returns an empty list.
C9_FallbackOnlyWhenEmpty ==
    /\ next_data # Unqueried => (pc \notin {"call", "launch", "goto", "query", "loop"}
                                  /\ Len(DomRecords(Len(Considered))) = 0)
    /\ (pc \in Finished /\ Len(DomRecords(Len(Considered))) > 0) =>
            (next_data = Unqueried /\ result = DomRecords(Len(Considered)))
    /\ next_data.kind \in {"invalid", "too_deep"} =>
            (pc \notin {"unwind", "raised"} /\ articles = <<>>
             /\ (pc \in Finished => result = <<>>))

C9_Witness ==
    pc = "returned" /\ next_data.kind = "invalid" /\ Len(article_elements) > 0 /\ result = <<>>

\* the earliest yielding candidate with the url of `article`
Earliest(article, k) ==
    LET from == {j \in 1..k : Yields(j) /\ ExtractCandidate(Considered[j])["url"] = article["url"]}
    IN  IF from = {} THEN 0 ELSE FirstOf(from)

\* `list` is, in order, the records of the earliest candidates among the first k
FirstSeenOrder(list, k) ==
    /\ \A i \in 1..Len(list) :
          /\ Earliest(list[i], k) > 0
          /\ list[i] = ExtractCandidate(Considered[Earliest(list[i], k)])
    /\ \A i, j \in 1..Len(list) : i < j => Earliest(list[i], k) < Earliest(list[j], k)
    /\ \A j \in 1..k : Yields(j) =>
          \E i \in 1..Len(list) : list[i]["url"] = ExtractCandidate(Considered[j])["url"]

\* C10: on the candidate path the records keep first-seen order: each is the
\* record of the earliest candidate, among the first max_items, that yielded a
\* title and that url; a later candidate with the same url neither replaces
\* nor reorders it; the returned list is a prefix of that order.
C10_FirstSeenOrder ==
    /\ pc = "loop" => FirstSeenOrder(articles, idx)
    /\ (pc \in Finished /\ next_data.kind # "json") =>
          /\ Len(Considered) = Min(Len(article_elements), max_items)
          /\ result = Prefix(articles, max_items)
          /\ FirstSeenOrder(result, Len(Considered))

C10_Witness ==
    /\ pc = "returned" /\ Len(Considered) = 2 /\ Len(result) = 1
    /\ Yields(1) /\ Yields(2)
    /\ result[1] = ExtractCandidate(Considered[1])
    /\ result[1] # ExtractCandidate(Considered[2])

====
